---------------------------- MODULE Spec2Model ----------------------------
(***************************************************************************)
(* Model of the job-application step loop of tlweave2/jobagent:            *)
(* agent/controller.py (apply_to_job), with the collaborators it calls:    *)
(* browser/playwright_driver.py (BrowserDriver), models/local_llm.py       *)
(* (LocalLLM.analyze) and models/cloud_llm.py (CloudLLM.analyze).          *)
(*                                                                         *)
(* The page, the Ollama response and the Anthropic response are the        *)
(* environment: every step that reads one of them draws it from a small    *)
(* set.  The environment variables read by apply_to_job are left at their  *)
(* defaults (MIN_DELAY_BETWEEN_APPS = "2").                                *)
(***************************************************************************)
EXTENDS Integers, Sequences, FiniteSets, TLC

(***************************************************************************)
(* Bounds of the model.                                                    *)
(***************************************************************************)
\* longest action list a language model returns
MaxActions == 2
\* number of distinct page texts the browser can show
NumTexts == 3
\* longest HTML string handed to has_stalled
MaxHtmlLen == 21
\* most buttons, and most inputs, on a page
MaxElements == 2
\* number of search tasks the web server can create
MaxRuns == 3
\* most jobs a search finds
MaxJobs == 2
\* number of applications the overlord can watch
MaxApps == 2
\* most seconds by which a monitoring round runs late
MaxLate == 2

(***************************************************************************)
(* Program constants.                                                      *)
(***************************************************************************)
\* controller.py:113   max_steps = 10
max_steps == 10
\* controller.py:137   if stall_count >= 3
stall_threshold == 3
\* controller.py:174   if step_count > 3
min_steps_for_heuristic == 3
\* controller.py:116   last_snapshot_hash = None.  CPython's hash() never
\* returns -1, so -1 stands for None: no fingerprint is equal to it.
NoneHash == 0 - 1

(***************************************************************************)
(* Page text.  A text is a sequence of characters, so that str.lower() and *)
(* the substring test `keyword in page_text` are computed, not assumed.    *)
(***************************************************************************)
Alphabet ==
    << "a", "b", "c", "d", "e", "f", "g", "h", "i", "j", "k", "l", "m",
       "n", "o", "p", "q", "r", "s", "t", "u", "v", "w", "x", "y", "z",
       "A", "B", "C", "D", "E", "F", "G", "H", "I", "J", "K", "L", "M",
       "N", "O", "P", "Q", "R", "S", "T", "U", "V", "W", "X", "Y", "Z",
       " " >>

Characters == { Alphabet[i] : i \in 1..Len(Alphabet) }

\* the position of each character in Alphabet
CharCode ==
    [c \in Characters |-> CHOOSE i \in 1..Len(Alphabet) : Alphabet[i] = c]

\* a lower() that leaves capitals as they are
LowerCharKeepsCase(c) == c

\* str.lower() on one character
LowerChar(c) ==
    LET k == CharCode[c] IN IF k >= 27 /\ k <= 52 THEN Alphabet[k - 26] ELSE c

\* str.lower()
Lower(s) == [i \in 1..Len(s) |-> LowerChar(s[i])]

\* Python's `kw in s` for strings
Contains(s, kw) ==
    \E i \in 0..(Len(s) - Len(kw)) :
        \A j \in 1..Len(kw) : s[i + j] = kw[j]

\* The texts the page can show (the first NumTexts of them are used).
TextCatalog ==
    << << "C", "o", "n", "t", "a", "c", "t", " ", "i", "n", "f", "o" >>,
       << "T", "h", "a", "n", "k", " ", "Y", "o", "u", " ", "f", "o", "r",
          " ", "a", "p", "p", "l", "y", "i", "n", "g" >>,
       << "R", "e", "s", "u", "m", "e" >>,
       << "C", "o", "n", "f", "i", "r", "m" >>,
       << "S", "U", "C", "C", "E", "S", "S" >>,
       << "W", "o", "r", "k" >> >>

Texts ==
    { TextCatalog[i] : i \in 1..(IF NumTexts < Len(TextCatalog)
                                 THEN NumTexts ELSE Len(TextCatalog)) }

\* controller.py:177-180, the completion lexicon of the no-actions heuristic
CompletionKeywords ==
    { << "a", "p", "p", "l", "i", "c", "a", "t", "i", "o", "n", " ",
         "s", "u", "b", "m", "i", "t", "t", "e", "d" >>,
      << "t", "h", "a", "n", "k", " ", "y", "o", "u" >>,
      << "s", "u", "c", "c", "e", "s", "s" >>,
      << "w", "e", " ", "h", "a", "v", "e", " ", "r", "e", "c", "e", "i",
         "v", "e", "d" >>,
      << "a", "p", "p", "l", "i", "c", "a", "t", "i", "o", "n", " ",
         "c", "o", "m", "p", "l", "e", "t", "e" >> }

\* local_llm.py:63-66, the final-step lexicon of LocalLLM.analyze
FinalStepKeywords ==
    { << "a", "p", "p", "l", "i", "c", "a", "t", "i", "o", "n", " ",
         "s", "u", "b", "m", "i", "t", "t", "e", "d" >>,
      << "t", "h", "a", "n", "k", " ", "y", "o", "u" >>,
      << "s", "u", "c", "c", "e", "s", "s" >>,
      << "r", "e", "v", "i", "e", "w", " ", "a", "p", "p", "l", "i", "c",
         "a", "t", "i", "o", "n" >>,
      << "s", "u", "b", "m", "i", "t", " ", "a", "p", "p", "l", "i", "c",
         "a", "t", "i", "o", "n" >>,
      << "c", "o", "n", "f", "i", "r", "m" >>,
      << "f", "i", "n", "i", "s", "h" >> }

\* controller.py:176-180   any(keyword in page_text for keyword in [...])
\* with page_text = snapshot.get("text", "").lower()
LooksSuccessful(text) ==
    \E kw \in CompletionKeywords : Contains(Lower(text), kw)

\* local_llm.py:63-66
LooksFinal(text) ==
    \E kw \in FinalStepKeywords : Contains(Lower(text), kw)

(***************************************************************************)
(* controller.py:132   current_hash = hash(str(snapshot.get("text", "")))  *)
(* hash() of a str is a keyed 64-bit hash, fixed for the life of the       *)
(* process.  It is modelled by a polynomial hash of the characters: a      *)
(* function of the content alone, never equal to NoneHash, and free of     *)
(* collisions on TextCatalog (as the 64-bit hash is, but for a chance of   *)
(* 2^-64).                                                                 *)
(***************************************************************************)
RECURSIVE HashFrom(_, _, _)
HashFrom(s, i, h) ==
    IF i > Len(s) THEN h
    ELSE HashFrom(s, i + 1, (h * 31 + CharCode[s[i]]) % 65521)

\* a fingerprint that tells texts apart by the parity of their length only
HashColliding(text) == Len(text) % 2

Hash(text) == HashFrom(text, 1, 7)


(***************************************************************************)
(* Action requests, as the language models return them.  A request is a    *)
(* JSON object {"action": ..., "id": "<prefix>_<index>"}; `dict` is FALSE  *)
(* for a list entry that is no JSON object (a string, a number).           *)
(***************************************************************************)
Request(action, prefix, index) ==
    [dict |-> TRUE, action |-> action, prefix |-> prefix, index |-> index]

Malformed == [dict |-> FALSE, action |-> "", prefix |-> "none", index |-> 0]

\* the requests the local model chooses from
Requests == { Request("fill", "input", 0), Malformed }

RECURSIVE SeqsUpTo(_, _)
SeqsUpTo(S, n) ==
    IF n = 0 THEN { << >> }
    ELSE LET shorter == SeqsUpTo(S, n - 1)
         IN  shorter \cup { Append(q, x) : q \in shorter, x \in S }

ActionLists == SeqsUpTo(Requests, MaxActions)

\* The value under "actions": a list (sized), or a JSON value with no len()
\* such as null or a number (not sized).
Sized(items) == [sized |-> TRUE, items |-> items]
NotSized == [sized |-> FALSE, items |-> << >>]

(***************************************************************************)
(* playwright_driver.py:144-215   BrowserDriver.execute_actions            *)
(* The page at execution time: how many elements each query returns, and   *)
(* whether Playwright raises when an element is acted on (detached).       *)
(***************************************************************************)
Pages ==
    [buttons : 0..1, inputs : 0..1, files : {0}, detached : BOOLEAN]

Unbound == "<unbound>"

Outcome(action_type, status) == [action |-> action_type, status |-> status]

\* lines 177-182, 189-194, 201-206: act on element `index` of a query result
ActOn(action_type, index, count, page) ==
    IF index < count
    THEN IF page.detached
         THEN << Outcome(action_type, "error") >>
         ELSE << Outcome(action_type, "success") >>
    ELSE << Outcome(action_type, "element_not_found") >>

\* lines 172-209: the body of the try block for a JSON object; the outcomes
\* it appends to results
TryAction(a, page) ==
    IF a.action \in {"click", "fill", "upload"}
    THEN IF a.prefix = "none"
         THEN << Outcome(a.action, "error") >>
         ELSE IF a.action = "click"
         THEN IF a.prefix = "btn"
              THEN ActOn(a.action, a.index, page.buttons, page)
              ELSE << >>
         ELSE IF a.prefix = "input"
         THEN ActOn(a.action, a.index,
                    IF a.action = "fill" THEN page.inputs ELSE page.files,
                    page)
         ELSE << >>
    ELSE << Outcome(a.action, "unknown_action") >>

\* lines 165-213: the for loop.  action_type is the local variable of that
\* name; the except handler of line 211 reads it, and it is unbound until
\* the first action.get succeeds.
RECURSIVE ExecuteFrom(_, _, _, _, _)
ExecuteFrom(actions, i, page, results, action_type) ==
    IF i > Len(actions)
    THEN [raised |-> FALSE, status |-> "completed", results |-> results]
    ELSE LET a == actions[i] IN
         IF a.dict
         THEN ExecuteFrom(actions, i + 1, page,
                          results \o TryAction(a, page), a.action)
         ELSE IF action_type = Unbound
         THEN [raised |-> TRUE, status |-> "", results |-> results]
         ELSE ExecuteFrom(actions, i + 1, page,
                          Append(results, Outcome(action_type, "error")),
                          action_type)

execute_actions(actions, page) == ExecuteFrom(actions, 1, page, << >>, Unbound)

NoExecution == [raised |-> FALSE, status |-> "", results |-> << >>]

(***************************************************************************)
(* local_llm.py:43-98   LocalLLM.analyze                                   *)
(* The Ollama response is unparseable text (also "" after a request        *)
(* error, line 41), a JSON value that is no object, or a JSON object with  *)
(* optional "actions" and "is_final_step".                                 *)
(***************************************************************************)
FinalFlags == {"true", "false", "absent"}

Unparseable == [kind |-> "unparseable", actions |-> Sized(<< >>), fin |-> "absent"]

LLMResponses ==
    {Unparseable}
    \cup [kind : {"nondict"}, actions : {Sized(<< >>)}, fin : {"absent"}]
    \cup [kind : {"dict"},
          actions : { Sized(l) : l \in ActionLists } \cup {NotSized},
          fin : FinalFlags]

\* the lists _fallback_form_fill (lines 138-178) can build from the inputs
FallbackLists == { << >>, << Request("fill", "input", 0) >> }

\* what an analyze call gives back: a dictionary (dict), a parsed JSON
\* value that is no dictionary, or an exception (raised)
Answer(acts, fin) ==
    [raised |-> FALSE, dict |-> TRUE, actions |-> acts, is_final_step |-> fin]

Raises ==
    [raised |-> TRUE, dict |-> TRUE, actions |-> Sized(<< >>),
     is_final_step |-> FALSE]

NotADict ==
    [raised |-> FALSE, dict |-> FALSE, actions |-> Sized(<< >>),
     is_final_step |-> FALSE]

\* easy: the snapshot has an "Easy Apply" button and no visible input
\* (lines 69-80); fallback: what _fallback_form_fill returns (line 98)
local_analyze(text, easy, rsp, fallback) ==
    LET is_final == LooksFinal(text) IN
    IF easy
    THEN Answer(Sized(<< Request("click", "btn", 0) >>), FALSE)
    ELSE IF rsp.kind = "unparseable" THEN Answer(Sized(fallback), is_final)
    ELSE IF rsp.kind = "nondict" THEN Raises
    ELSE Answer(rsp.actions,
                IF rsp.fin = "absent" THEN is_final ELSE rsp.fin = "true")

(***************************************************************************)
(* cloud_llm.py:27-72   CloudLLM.analyze                                   *)
(* The remote call fails (line 70), or answers text that holds no JSON     *)
(* (lines 66-68), or text whose {...} part does not parse (line 66 raises  *)
(* into line 70), or a JSON value, which is returned as parsed (line 60).  *)
(***************************************************************************)
\* the lists the cloud model chooses from: its recovery prompt asks for
\* clicks (cloud_llm.py:95-96)
CloudLists == { << >>, << Request("click", "btn", 0) >> }

\* the outcomes of the remote call that give no parsed JSON value
CloudFailures == {"network_error", "garbage", "broken_json"}

CloudResponses ==
    [kind : CloudFailures \cup {"nondict"},
     actions : {Sized(<< >>)}, fin : {"absent"}]
    \cup [kind : {"dict"},
          actions : { Sized(l) : l \in CloudLists },
          fin : {"true", "false"}]

cloud_analyze(rsp) ==
    IF rsp.kind = "dict" THEN Answer(rsp.actions, rsp.fin = "true")
    ELSE IF rsp.kind = "nondict" THEN NotADict
    ELSE Answer(Sized(<< >>), FALSE)

(***************************************************************************)
(* controller.py:40-206   apply_to_job                                     *)
(***************************************************************************)
VARIABLES
    pc,                 \* position in apply_to_job
    use_cloud,          \* the argument use_cloud
    cloud_llm,          \* TRUE when cloud_llm is a CloudLLM, FALSE when None
    browser,            \* "none", "open" or "closed"
    step_count,
    stall_count,
    last_snapshot_hash,
    snapshot,           \* snapshot["text"]
    result,             \* the dictionary last returned by an analyze call
    actions,
    is_final,
    execution_result,
    outcome,            \* how the loop was left: the terminal result
    reported_max,       \* line 196 printed "Reached maximum number of steps"
    raised,             \* an exception leaves apply_to_job (line 202)
    fault,              \* the call that raised it
    invoked,            \* the collaborators called in the current iteration
    escalation,         \* what CloudLLM.analyze returned in this iteration
    fingerprinted,      \* the text whose hash is last_snapshot_hash
    prior_stall,        \* stall_count before the last comparison
    cloud_reply,        \* the outcome of the remote call of this iteration
    escalations,        \* the number of CloudLLM.analyze calls so far
    escalated_at,       \* the iteration of the last CloudLLM.analyze call
    closes              \* the number of browser.close() calls so far

(***************************************************************************)
(* The state of the other components.  Each of them is checked under a    *)
(* specification of its own; under Spec they stay as OthersIdle has them.  *)
(***************************************************************************)
VARIABLES
    \* dom_utils.has_stalled
    dom_pc,             \* "idle", "called" or "returned"
    previous_html,
    current_html,
    threshold,          \* the float threshold, as the fraction num/den
    stalled,            \* the value returned
    \* BrowserDriver.get_page_snapshot and execute_actions
    exec_pc,            \* "idle", "loop", "returned" or "raised"
    exec_page,          \* the elements of the page, in document order
    exec_snapshot,      \* the ids get_page_snapshot gave out: id -> element
    exec_actions,       \* the argument actions
    exec_done,          \* how many actions the for loop has been through
    exec_results,       \* results, and whether an exception left the call
    exec_touched,       \* per action gone through: the element acted on
    \* WebOrchestrator and AutoApplyWebServer
    is_running,
    run_pc,             \* the position of each web_run_job_search task
    run_jobs,           \* the jobs each task still has to apply to
    \* OverlordAgent
    active_applications,    \* application id -> seconds since last_activity
    overlord_pc,        \* monitor_session: "check" or "sleep"
    silent,             \* the applications that report no activity any more
    \* AIFormFillingAgent.ai_complete_application_forms
    form_pc,
    form_step,          \* the loop variable step
    completed_steps,
    form_result         \* the dictionary returned

dom_vars == << dom_pc, previous_html, current_html, threshold, stalled >>

exec_vars ==
    << exec_pc, exec_page, exec_snapshot, exec_actions, exec_done,
       exec_results, exec_touched >>

web_vars == << is_running, run_pc, run_jobs >>

overlord_vars ==
    << active_applications, overlord_pc, silent >>

form_vars == << form_pc, form_step, completed_steps, form_result >>

other_vars == << dom_vars, exec_vars, web_vars, overlord_vars, form_vars >>

controller_vars ==
    << pc, use_cloud, cloud_llm, browser, step_count, stall_count,
       last_snapshot_hash, snapshot, result, actions, is_final,
       execution_result, outcome, reported_max, raised, fault, invoked,
       escalation, fingerprinted, prior_stall, cloud_reply, escalations,
       escalated_at, closes >>

vars == << controller_vars, other_vars >>

loop_vars ==
    << step_count, stall_count, last_snapshot_hash, snapshot, result,
       actions, is_final, execution_result, invoked, escalation >>

NoAnswer == Answer(Sized(<< >>), FALSE)

\* no text has been fingerprinted yet
NoText == << "<none>" >>

\* has_stalled is not being called
DomIdle ==
    /\ dom_pc = "idle"
    /\ previous_html = << >>
    /\ current_html = << >>
    /\ threshold = [num |-> 0, den |-> 1]
    /\ stalled = FALSE

\* no snapshot is taken and execute_actions is not being called
ExecIdle ==
    /\ exec_pc = "idle"
    /\ exec_page = [buttons |-> << >>, inputs |-> << >>]
    /\ exec_snapshot = [buttons |-> {}, inputs |-> {}]
    /\ exec_actions = << >>
    /\ exec_done = 0
    /\ exec_results = NoExecution
    /\ exec_touched = << >>

\* the web server has no search task
WebIdle ==
    /\ is_running = FALSE
    /\ run_pc = << >>
    /\ run_jobs = << >>

\* the overlord monitors nothing
OverlordIdle ==
    /\ active_applications = << >>
    /\ overlord_pc = "idle"
    /\ silent = {}

\* ai_complete_application_forms is not being called
FormIdle ==
    /\ form_pc = "idle"
    /\ form_step = 0
    /\ completed_steps = 0
    /\ form_result = [returned |-> FALSE, success |-> FALSE,
                      completion_method |-> "none"]

OthersIdle == DomIdle /\ ExecIdle /\ WebIdle /\ OverlordIdle /\ FormIdle

\* apply_to_job has been called and has done nothing yet
ControllerStart ==
    /\ pc = "start"
    /\ use_cloud \in BOOLEAN
    /\ cloud_llm = FALSE
    /\ browser = "none"
    /\ step_count = 0
    /\ stall_count = 0
    /\ last_snapshot_hash = NoneHash
    /\ snapshot = << >>
    /\ result = NoAnswer
    /\ actions = Sized(<< >>)
    /\ is_final = FALSE
    /\ execution_result = NoExecution
    /\ outcome = "none"
    /\ reported_max = FALSE
    /\ raised = FALSE
    /\ fault = "none"
    /\ invoked = {}
    /\ escalation = NoAnswer
    /\ fingerprinted = NoText
    /\ prior_stall = 0
    /\ cloud_reply = "none"
    /\ escalations = 0
    /\ escalated_at = 0
    /\ closes = 0

Init == ControllerStart /\ OthersIdle

\* a cloud model is created whether or not use_cloud is set
BeginIgnoresFlag ==
    /\ pc = "start"
    /\ \E profile_ok \in BOOLEAN, cloud_ok \in BOOLEAN :
        IF profile_ok
        THEN /\ browser' = "open"
             /\ cloud_llm' = cloud_ok
             /\ pc' = "load_page"
        ELSE /\ pc' = "done"
             /\ UNCHANGED << browser, cloud_llm >>
    /\ UNCHANGED << fingerprinted, prior_stall >>
    /\ UNCHANGED other_vars
    /\ UNCHANGED << cloud_reply, escalations >>
    /\ UNCHANGED << escalated_at, closes >>
    /\ UNCHANGED << use_cloud, loop_vars, outcome, reported_max, raised,
                    fault >>

\* lines 66-90: load the profile, start the browser, create the models
Begin ==
    /\ pc = "start"
    /\ \E profile_ok \in BOOLEAN, cloud_ok \in BOOLEAN :
        IF profile_ok
        THEN /\ browser' = "open"
             /\ cloud_llm' = (use_cloud /\ cloud_ok)
             /\ pc' = "load_page"
        ELSE /\ pc' = "done"
             /\ UNCHANGED << browser, cloud_llm >>
    /\ UNCHANGED << fingerprinted, prior_stall >>
    /\ UNCHANGED other_vars
    /\ UNCHANGED << cloud_reply, escalations >>
    /\ UNCHANGED << escalated_at, closes >>
    /\ UNCHANGED << use_cloud, loop_vars, outcome, reported_max, raised,
                    fault >>

\* line 94: browser.load_page(job_url)
LoadPage ==
    /\ pc = "load_page"
    /\ \E ok \in BOOLEAN :
        /\ pc' = IF ok THEN "find_button" ELSE "except"
        /\ fault' = IF ok THEN fault ELSE "load_page"
    /\ UNCHANGED << fingerprinted, prior_stall >>
    /\ UNCHANGED other_vars
    /\ UNCHANGED << cloud_reply, escalations >>
    /\ UNCHANGED << escalated_at, closes >>
    /\ UNCHANGED << use_cloud, cloud_llm, browser, loop_vars, outcome,
                    reported_max, raised >>

\* lines 98-101: find_easy_apply_button never raises (driver lines 242-250)
FindEasyApplyButton ==
    /\ pc = "find_button"
    /\ \E found \in BOOLEAN :
        pc' = IF found THEN "click_easy_apply" ELSE "finally"
    /\ UNCHANGED << fingerprinted, prior_stall >>
    /\ UNCHANGED other_vars
    /\ UNCHANGED << cloud_reply, escalations >>
    /\ UNCHANGED << escalated_at, closes >>
    /\ UNCHANGED << use_cloud, cloud_llm, browser, loop_vars, outcome,
                    reported_max, raised, fault >>

\* lines 105-116: click Easy Apply, then initialise the loop
ClickEasyApply ==
    /\ pc = "click_easy_apply"
    /\ \/ /\ pc' = "while"
          /\ step_count' = 0
          /\ stall_count' = 0
          /\ last_snapshot_hash' = NoneHash
       \/ /\ pc' = "finally"
          /\ UNCHANGED << step_count, stall_count, last_snapshot_hash >>
    /\ UNCHANGED << fingerprinted, prior_stall >>
    /\ UNCHANGED other_vars
    /\ UNCHANGED << cloud_reply, escalations >>
    /\ UNCHANGED << escalated_at, closes >>
    /\ UNCHANGED << use_cloud, cloud_llm, browser, snapshot, result, actions,
                    is_final, execution_result, invoked, escalation, outcome,
                    reported_max, raised, fault >>

\* line 120, and the test written with <= 
LoopConditionOffByOne(steps) == steps <= max_steps

LoopCondition(steps) == steps < max_steps

\* line 121, and the counter left as it is
NoIncrement(steps) == steps

NextStep(steps) == steps + 1

\* lines 120-121: the loop test and the step counter.  The locals result,
\* actions, is_final and execution_result are dead here: every iteration
\* assigns each of them (lines 141/155, 157, 158, 165) before it reads it,
\* so they are cleared to keep the state space small.
While ==
    /\ pc = "while"
    /\ IF LoopCondition(step_count)
       THEN /\ step_count' = NextStep(step_count)
            /\ pc' = "snapshot"
            /\ outcome' = outcome
       ELSE /\ pc' = "after_loop"
            /\ outcome' = "Exhausted"
            /\ step_count' = step_count
    /\ invoked' = {}
    /\ escalation' = NoAnswer
    /\ result' = NoAnswer
    /\ actions' = Sized(<< >>)
    /\ is_final' = FALSE
    /\ execution_result' = NoExecution
    /\ UNCHANGED << fingerprinted, prior_stall >>
    /\ UNCHANGED other_vars
    /\ cloud_reply' = "none" /\ UNCHANGED escalations
    /\ UNCHANGED << escalated_at, closes >>
    /\ UNCHANGED << use_cloud, cloud_llm, browser, stall_count,
                    last_snapshot_hash, snapshot, reported_max, raised,
                    fault >>

\* a failed observation is tried again on the next iteration
TakeSnapshotContinues ==
    /\ pc = "snapshot"
    /\ invoked' = invoked \cup {"observer"}
    /\ \/ /\ \E text \in Texts : snapshot' = text
          /\ pc' = "stall_detect"
          /\ UNCHANGED << outcome, fault >>
       \/ /\ pc' = "while"
          /\ fault' = "observer"
          /\ UNCHANGED << outcome, snapshot >>
    /\ UNCHANGED << fingerprinted, prior_stall >>
    /\ UNCHANGED other_vars
    /\ UNCHANGED << cloud_reply, escalations >>
    /\ UNCHANGED << escalated_at, closes >>
    /\ UNCHANGED << use_cloud, cloud_llm, browser, step_count, stall_count,
                    last_snapshot_hash, result, actions, is_final,
                    execution_result, escalation, reported_max, raised >>

\* lines 125-129: browser.get_page_snapshot(); a failure leaves the loop
TakeSnapshot ==
    /\ pc = "snapshot"
    /\ invoked' = invoked \cup {"observer"}
    /\ \/ /\ \E text \in Texts : snapshot' = text
          /\ pc' = "stall_detect"
          /\ UNCHANGED << outcome, fault >>
       \/ /\ pc' = "after_loop"
          /\ outcome' = "Aborted"
          /\ fault' = "observer"
          /\ UNCHANGED snapshot
    /\ UNCHANGED << fingerprinted, prior_stall >>
    /\ UNCHANGED other_vars
    /\ UNCHANGED << cloud_reply, escalations >>
    /\ UNCHANGED << escalated_at, closes >>
    /\ UNCHANGED << use_cloud, cloud_llm, browser, step_count, stall_count,
                    last_snapshot_hash, result, actions, is_final,
                    execution_result, escalation, reported_max, raised >>

\* line 133: the page is unchanged when the fingerprints are equal
Unchanged(current_hash, last_hash) == current_hash = last_hash

\* line 134, and the counter left as it is
StallCountStuck(stalls) == stalls

NextStall(stalls) == stalls + 1

\* recovery at the first unchanged snapshot
RecoverAtOnce(stalls) == stalls >= 1

\* recovery one unchanged snapshot too early
RecoverEarly(stalls) == stalls >= stall_threshold - 1

\* line 137
ShouldRecover(stalls) == stalls >= stall_threshold

\* lines 132-135 and 149-151: compare the fingerprint with the last one
StallDetect ==
    /\ pc = "stall_detect"
    /\ LET current_hash == Hash(snapshot) IN
       IF Unchanged(current_hash, last_snapshot_hash)
       THEN /\ stall_count' = NextStall(stall_count)
            /\ last_snapshot_hash' = last_snapshot_hash
            /\ pc' = "stalled"
            /\ UNCHANGED fingerprinted
       ELSE /\ stall_count' = 0
            /\ last_snapshot_hash' = current_hash
            /\ pc' = "analyze"
            /\ fingerprinted' = snapshot
    /\ prior_stall' = stall_count
    /\ UNCHANGED other_vars
    /\ UNCHANGED << cloud_reply, escalations >>
    /\ UNCHANGED << escalated_at, closes >>
    /\ UNCHANGED << use_cloud, cloud_llm, browser, step_count, snapshot,
                    result, actions, is_final, execution_result, outcome,
                    reported_max, raised, fault, invoked, escalation >>

\* lines 137-141: recovery with the cloud model; CloudLLM.analyze catches
\* every exception (cloud_llm.py:70-72).  Control then reaches line 155.
Recover ==
    /\ pc = "stalled"
    /\ ShouldRecover(stall_count)
    /\ cloud_llm
    /\ invoked' = invoked \cup {"escalation"}
    /\ escalations' = escalations + 1
    /\ escalated_at' = step_count
    /\ UNCHANGED closes
    /\ \E rsp \in CloudResponses :
        LET answer == cloud_analyze(rsp) IN
        /\ cloud_reply' = rsp.kind
        /\ escalation' = answer
        /\ IF answer.raised
           THEN /\ pc' = "except"
                /\ fault' = "escalation"
                /\ UNCHANGED result
           ELSE /\ result' = answer
                /\ pc' = "analyze"
                /\ UNCHANGED fault
    /\ UNCHANGED << fingerprinted, prior_stall >>
    /\ UNCHANGED other_vars
    /\ UNCHANGED << use_cloud, cloud_llm, browser, step_count, stall_count,
                    last_snapshot_hash, snapshot, actions, is_final,
                    execution_result, outcome, reported_max, raised >>

\* without a cloud model the stalled page is handed to the local model
GiveUpFallsThrough ==
    /\ pc = "stalled"
    /\ stall_count >= stall_threshold
    /\ ~cloud_llm
    /\ pc' = "analyze"
    /\ UNCHANGED << fingerprinted, prior_stall >>
    /\ UNCHANGED other_vars
    /\ UNCHANGED << cloud_reply, escalations >>
    /\ UNCHANGED << escalated_at, closes >>
    /\ UNCHANGED << use_cloud, cloud_llm, browser, loop_vars, outcome,
                    reported_max, raised, fault >>

\* lines 142-144: no cloud model, leave the loop
GiveUp ==
    /\ pc = "stalled"
    /\ ShouldRecover(stall_count)
    /\ ~cloud_llm
    /\ pc' = "after_loop"
    /\ outcome' = "Stalled"
    /\ UNCHANGED << fingerprinted, prior_stall >>
    /\ UNCHANGED other_vars
    /\ UNCHANGED << cloud_reply, escalations >>
    /\ UNCHANGED << escalated_at, closes >>
    /\ UNCHANGED << use_cloud, cloud_llm, browser, loop_vars, reported_max,
                    raised, fault >>

\* lines 145-148: below the threshold, sleep and `continue`
WaitAndRetry ==
    /\ pc = "stalled"
    /\ ~ShouldRecover(stall_count)
    /\ pc' = "while"
    /\ UNCHANGED << fingerprinted, prior_stall >>
    /\ UNCHANGED other_vars
    /\ UNCHANGED << cloud_reply, escalations >>
    /\ UNCHANGED << escalated_at, closes >>
    /\ UNCHANGED << use_cloud, cloud_llm, browser, loop_vars, outcome,
                    reported_max, raised, fault >>

\* What LocalLLM.analyze meets besides the page text: an Easy Apply page
\* (the response is then not read), an unparseable response (the fallback
\* list is then used), or a parsed response.
AnalyzeCalls ==
    [easy : {TRUE}, rsp : {Unparseable}, fallback : {<< >>}]
    \cup [easy : {FALSE}, rsp : {Unparseable}, fallback : FallbackLists]
    \cup [easy : {FALSE}, rsp : LLMResponses \ {Unparseable},
          fallback : {<< >>}]

\* lines 155-160: the local model; line 160 takes len(actions)
Analyze ==
    /\ pc = "analyze"
    /\ invoked' = invoked \cup {"primary"}
    /\ \E call \in AnalyzeCalls :
        LET answer == local_analyze(snapshot, call.easy, call.rsp,
                                    call.fallback) IN
        IF answer.raised
        THEN /\ pc' = "except"
             /\ fault' = "primary"
             /\ UNCHANGED << result, actions, is_final >>
        ELSE /\ result' = answer
             /\ actions' = answer.actions
             /\ is_final' = answer.is_final_step
             /\ pc' = IF answer.actions.sized THEN "act" ELSE "except"
             /\ fault' = IF answer.actions.sized THEN fault ELSE "primary"
    /\ UNCHANGED << fingerprinted, prior_stall >>
    /\ UNCHANGED other_vars
    /\ UNCHANGED << cloud_reply, escalations >>
    /\ UNCHANGED << escalated_at, closes >>
    /\ UNCHANGED << use_cloud, cloud_llm, browser, step_count, stall_count,
                    last_snapshot_hash, snapshot, execution_result, outcome,
                    reported_max, raised, escalation >>

\* lines 163-169: browser.execute_actions(actions)
ExecuteActions ==
    /\ pc = "act"
    /\ actions.items # << >>
    /\ invoked' = invoked \cup {"executor"}
    /\ \E page \in Pages :
        LET done == execute_actions(actions.items, page) IN
        IF done.raised
        THEN /\ pc' = "except"
             /\ fault' = "executor"
             /\ UNCHANGED execution_result
        ELSE /\ execution_result' = done
             /\ pc' = "final_check"
             /\ UNCHANGED fault
    /\ UNCHANGED << fingerprinted, prior_stall >>
    /\ UNCHANGED other_vars
    /\ UNCHANGED << cloud_reply, escalations >>
    /\ UNCHANGED << escalated_at, closes >>
    /\ UNCHANGED << use_cloud, cloud_llm, browser, step_count, stall_count,
                    last_snapshot_hash, snapshot, result, actions, is_final,
                    outcome, reported_max, raised, escalation >>

\* the heuristic applied from the first step on
HeuristicAlways(steps) == steps > 0

\* the heuristic already applied at the third step
HeuristicEarly(steps) == steps >= min_steps_for_heuristic

\* the heuristic applied one step too late
HeuristicLate(steps) == steps > min_steps_for_heuristic + 1

\* line 174
HeuristicApplies(steps) == steps > min_steps_for_heuristic

\* lines 170-185: no actions; after the third step look for a success page
NoActions ==
    /\ pc = "act"
    /\ actions.items = << >>
    /\ IF HeuristicApplies(step_count)
       THEN IF LooksSuccessful(snapshot)
            THEN /\ is_final' = TRUE
                 /\ pc' = "final_check"
                 /\ UNCHANGED outcome
            ELSE /\ pc' = "after_loop"
                 /\ outcome' = "Exhausted"
                 /\ UNCHANGED is_final
       ELSE /\ pc' = "final_check"
            /\ UNCHANGED << is_final, outcome >>
    /\ UNCHANGED << fingerprinted, prior_stall >>
    /\ UNCHANGED other_vars
    /\ UNCHANGED << cloud_reply, escalations >>
    /\ UNCHANGED << escalated_at, closes >>
    /\ UNCHANGED << use_cloud, cloud_llm, browser, step_count, stall_count,
                    last_snapshot_hash, snapshot, result, actions,
                    execution_result, reported_max, raised, fault, invoked,
                    escalation >>

\* lines 188-193: leave the loop on the final step, else sleep and loop
FinalCheck ==
    /\ pc = "final_check"
    /\ IF is_final
       THEN /\ pc' = "after_loop"
            /\ outcome' = "Completed"
       ELSE /\ pc' = "while"
            /\ UNCHANGED outcome
    /\ UNCHANGED << fingerprinted, prior_stall >>
    /\ UNCHANGED other_vars
    /\ UNCHANGED << cloud_reply, escalations >>
    /\ UNCHANGED << escalated_at, closes >>
    /\ UNCHANGED << use_cloud, cloud_llm, browser, loop_vars, reported_max,
                    raised, fault >>

\* lines 195-198
AfterLoop ==
    /\ pc = "after_loop"
    /\ reported_max' = (step_count >= max_steps)
    /\ pc' = "finally"
    /\ UNCHANGED << fingerprinted, prior_stall >>
    /\ UNCHANGED other_vars
    /\ UNCHANGED << cloud_reply, escalations >>
    /\ UNCHANGED << escalated_at, closes >>
    /\ UNCHANGED << use_cloud, cloud_llm, browser, loop_vars, outcome,
                    raised, fault >>

\* the exception is logged and swallowed
ExceptSwallows ==
    /\ pc = "except"
    /\ pc' = "finally"
    /\ UNCHANGED << fingerprinted, prior_stall >>
    /\ UNCHANGED other_vars
    /\ UNCHANGED << cloud_reply, escalations >>
    /\ UNCHANGED << escalated_at, closes >>
    /\ UNCHANGED << use_cloud, cloud_llm, browser, loop_vars, outcome,
                    reported_max, raised, fault >>

\* lines 200-202: log the exception and raise it again
Except ==
    /\ pc = "except"
    /\ raised' = TRUE
    /\ pc' = "finally"
    /\ UNCHANGED << fingerprinted, prior_stall >>
    /\ UNCHANGED other_vars
    /\ UNCHANGED << cloud_reply, escalations >>
    /\ UNCHANGED << escalated_at, closes >>
    /\ UNCHANGED << use_cloud, cloud_llm, browser, loop_vars, outcome,
                    reported_max, fault >>

\* the browser is left open
FinallyLeaksBrowser ==
    /\ pc = "finally"
    /\ pc' = "done"
    /\ UNCHANGED << browser, closes, escalated_at >>
    /\ UNCHANGED << fingerprinted, prior_stall >>
    /\ UNCHANGED other_vars
    /\ UNCHANGED << cloud_reply, escalations >>
    /\ UNCHANGED << use_cloud, cloud_llm, loop_vars, outcome, reported_max,
                    raised, fault >>

\* lines 203-206: browser.close()
Finally ==
    /\ pc = "finally"
    /\ browser' = "closed"
    /\ pc' = "done"
    /\ UNCHANGED << fingerprinted, prior_stall >>
    /\ UNCHANGED other_vars
    /\ UNCHANGED << cloud_reply, escalations >>
    /\ closes' = closes + 1
    /\ UNCHANGED escalated_at
    /\ UNCHANGED << use_cloud, cloud_llm, loop_vars, outcome, reported_max,
                    raised, fault >>

Next ==
    \/ Begin
    \/ LoadPage
    \/ FindEasyApplyButton
    \/ ClickEasyApply
    \/ While
    \/ TakeSnapshot
    \/ StallDetect
    \/ Recover
    \/ GiveUp
    \/ WaitAndRetry
    \/ Analyze
    \/ ExecuteActions
    \/ NoActions
    \/ FinalCheck
    \/ AfterLoop
    \/ Except
    \/ Finally

Spec == Init /\ [][Next]_vars

\* Every call returns: a step that can be taken is eventually taken.
FairSpec == Spec /\ WF_vars(Next)

(***************************************************************************)
(* Properties of the step loop.                                            *)
(***************************************************************************)
InLoop ==
    pc \in {"while", "snapshot", "stall_detect", "stalled", "analyze", "act",
            "final_check"}

LoopLeft == pc \in {"after_loop", "finally", "done"}

TerminalResults == {"Completed", "Exhausted", "Stalled", "Aborted"}

\* C1: step_count is incremented exactly once per iteration, by the step
\* that enters the loop body and by no other step (a waiting iteration
\* included), and 0 <= step_count <= max_steps holds in every state.
C1_StepCountBounded ==
    /\ [](step_count >= 0 /\ step_count <= max_steps)
    /\ [][ /\ (pc = "while" /\ pc' = "snapshot")
              => step_count' = step_count + 1
           /\ (InLoop /\ ~(pc = "while" /\ pc' = "snapshot"))
              => step_count' = step_count
           /\ (pc # "snapshot" /\ pc' = "snapshot") => pc = "while" ]_vars

\* the budget is used up and the last iteration only waited
C1_Witness ==
    pc = "while" /\ step_count = max_steps /\ stall_count = 1

\* a measure of the work left: the steps of the iterations still allowed,
\* then the steps of leaving apply_to_job
Rank ==
    CASE pc = "done" -> 0
      [] pc = "finally" -> 1
      [] pc = "except" -> 2
      [] pc = "after_loop" -> 3
      [] pc = "while" -> 4
      [] pc = "final_check" -> 5
      [] pc = "act" -> 6
      [] pc = "analyze" -> 7
      [] pc = "stalled" -> 8
      [] pc = "stall_detect" -> 9
      [] pc = "snapshot" -> 10
      [] pc = "click_easy_apply" -> 11
      [] pc = "find_button" -> 12
      [] pc = "load_page" -> 13
      [] pc = "start" -> 14

Variant ==
    Rank + (IF InLoop THEN 10 * (max_steps - step_count) ELSE 0)
         + (IF pc \in {"click_easy_apply", "find_button", "load_page", "start"}
            THEN 10 * max_steps ELSE 0)

LoopRan == pc = "done" /\ step_count >= 1

C4_ResetAfterEscalation ==
    (pc = "while" /\ "escalation" \in invoked) => stall_count = 0

\* C5 as stated: in an iteration that calls the cloud model the local model
\* is not called and the actions and the final flag acted on are the cloud
\* model's; the local model is called only when stall_count is 0.
C5_EscalationDecides ==
    /\ "escalation" \in invoked => "primary" \notin invoked
    /\ ("escalation" \in invoked /\ pc \in {"act", "final_check"})
        => (actions = escalation.actions
            /\ result.is_final_step = escalation.is_final_step)
    /\ "primary" \in invoked => stall_count = 0

\* C6: when stall_count reaches the threshold and there is no cloud model,
\* that evaluation leaves the loop with Stalled; in that iteration only the
\* observer was called, and no later step calls anything or starts another
\* iteration.
C6_StalledAtOnce ==
    /\ [][ (pc = "stalled" /\ stall_count >= stall_threshold /\ ~cloud_llm)
           => (pc' = "after_loop" /\ outcome' = "Stalled"
               /\ invoked' = invoked /\ step_count' = step_count) ]_vars
    /\ [](outcome = "Stalled"
          => (LoopLeft /\ invoked = {"observer"} /\ ~cloud_llm
              /\ stall_count = stall_threshold))
    /\ [][ outcome = "Stalled"
           => (outcome' = "Stalled" /\ step_count' = step_count) ]_vars

\* the attempt ended Stalled before the step budget was used up
C6_Witness ==
    pc = "done" /\ outcome = "Stalled" /\ step_count < max_steps

\* C7: in an iteration where stall_count is nonzero and below the threshold
\* no model and no executor is called and the loop is not left: control is
\* back at the loop test with no terminal result, and the next iteration
\* starts whenever the step budget allows one.
C7_WaitBelowThreshold ==
    /\ [][ (pc = "stalled" /\ stall_count > 0
            /\ stall_count < stall_threshold)
           => (pc' = "while" /\ outcome' = "none" /\ invoked' = invoked) ]_vars
    /\ []((pc = "stalled" \/ (pc = "while" /\ stall_count > 0
                              /\ stall_count < stall_threshold))
          => (invoked = {"observer"} /\ outcome = "none"))
    /\ [][ (pc = "while" /\ stall_count > 0 /\ stall_count < stall_threshold
            /\ step_count < max_steps)
           => (pc' = "snapshot" /\ step_count' = step_count + 1) ]_vars

\* a second consecutive unchanged snapshot was waited out
C7_Witness ==
    pc = "while" /\ stall_count = 2 /\ invoked = {"observer"}
    /\ step_count < max_steps

\* C8: when the text of the snapshot is the text last fingerprinted,
\* stall_count grows by exactly 1 and last_snapshot_hash stays.
C8_UnchangedText ==
    [][ (pc = "stall_detect" /\ snapshot = fingerprinted)
        => (stall_count' = stall_count + 1
            /\ last_snapshot_hash' = last_snapshot_hash
            /\ fingerprinted' = fingerprinted) ]_vars

\* the same text was seen four times in a row after the first
C8_Witness ==
    pc = "stalled" /\ snapshot = fingerprinted /\ stall_count = 4
    /\ prior_stall = 3

\* C9: when the text of the snapshot differs from the text last
\* fingerprinted, or none was fingerprinted yet, stall_count becomes 0
\* whatever it was and last_snapshot_hash becomes the hash of the snapshot.
C9_ChangedText ==
    /\ [][ (pc = "stall_detect" /\ snapshot # fingerprinted)
           => (stall_count' = 0
               /\ last_snapshot_hash' = Hash(snapshot)
               /\ last_snapshot_hash' # last_snapshot_hash
               /\ fingerprinted' = snapshot) ]_vars
    /\ [](last_snapshot_hash = NoneHash <=> fingerprinted = NoText)

\* the text changed after five unchanged snapshots
C9_Witness ==
    pc = "analyze" /\ stall_count = 0 /\ prior_stall = 5
    /\ "escalation" \notin invoked

\* C10: a failed observation in iteration k ends the loop with Aborted at
\* once: step_count stays k, the observation is not repeated, and neither a
\* model nor the executor is called in that iteration or later.
C10_ObservationFailure ==
    /\ [][ (pc = "snapshot" /\ fault' = "observer")
           => (pc' = "after_loop" /\ outcome' = "Aborted"
               /\ step_count' = step_count) ]_vars
    /\ [](fault = "observer"
          => (outcome = "Aborted" /\ LoopLeft /\ invoked = {"observer"}
              /\ ~raised))
    /\ [][ fault = "observer"
           => (fault' = "observer" /\ step_count' = step_count) ]_vars

\* the observation failed in the second iteration
C10_Witness ==
    pc = "done" /\ outcome = "Aborted" /\ step_count = 2


\* some completion phrase occurs in the text, in whatever letter case
SameLetter(a, b) ==
    \/ a = b
    \/ /\ CharCode[a] <= 52
       /\ CharCode[b] <= 52
       /\ (CharCode[a] - CharCode[b]) % 26 = 0

ShowsCompletion(text) ==
    \E kw \in CompletionKeywords :
        \E i \in 0..(Len(text) - Len(kw)) :
            \A j \in 1..Len(kw) : SameLetter(text[i + j], kw[j])

\* the local model answered in this iteration, with some actions
PrimaryProposed ==
    /\ "primary" \in invoked
    /\ fault # "primary"
    /\ actions.sized
    /\ actions.items # << >>

\* C11 as stated: when the local model answers is_final_step = True together
\* with a nonempty action list, the actions are executed and the attempt ends
\* with Completed in that same iteration: execute_actions was called, nothing
\* was raised, and no later iteration took a snapshot.
C11_FinalWithActions ==
    (pc = "done" /\ PrimaryProposed /\ result.is_final_step)
        => /\ outcome = "Completed"
           /\ "executor" \in invoked
           /\ ~raised

\* the local model answered in this iteration, with no actions
PrimaryIdle ==
    /\ "primary" \in invoked
    /\ fault # "primary"
    /\ actions.sized
    /\ actions.items = << >>

\* C12: an empty action list with is_final false in one of the first three
\* iterations ends nothing: the no-actions branch sets no result and leaves
\* is_final false, the final check returns to the loop test, and the loop
\* test starts the next iteration.
C12_EarlyEmptyContinues ==
    /\ [][ (pc = "act" /\ PrimaryIdle /\ ~is_final
               /\ step_count <= min_steps_for_heuristic)
           => (pc' = "final_check" /\ ~is_final' /\ outcome' = "none") ]_vars
    /\ [][ (pc = "final_check" /\ PrimaryIdle /\ ~is_final
               /\ step_count <= min_steps_for_heuristic)
           => (pc' = "while" /\ outcome' = "none"
               /\ step_count' = step_count) ]_vars
    /\ [][ (pc = "while" /\ step_count <= min_steps_for_heuristic)
           => (pc' = "snapshot" /\ step_count' = step_count + 1) ]_vars

\* the third iteration got no actions on a page without a completion phrase
\* and the loop is back at its test
C12_Witness ==
    /\ pc = "while"
    /\ step_count = min_steps_for_heuristic
    /\ PrimaryIdle
    /\ ~is_final
    /\ ~ShowsCompletion(snapshot)

\* C13: with an empty action list after the third step, a page text that
\* holds a completion phrase in any letter case sets is_final, and the same
\* iteration ends the attempt with Completed at the same step_count,
\* whatever the local model said about is_final_step.
C13_CompletionPhrase ==
    /\ [][ (pc = "act" /\ PrimaryIdle /\ step_count > min_steps_for_heuristic
               /\ ShowsCompletion(snapshot))
           => (pc' = "final_check" /\ is_final' /\ outcome' = "none"
               /\ step_count' = step_count) ]_vars
    /\ [][ (pc = "final_check" /\ is_final)
           => (pc' = "after_loop" /\ outcome' = "Completed"
               /\ step_count' = step_count) ]_vars
    /\ [](ShowsCompletion(TextCatalog[2]))

\* "Thank You for applying" with no actions and is_final_step false from
\* the local model ended the attempt with Completed
C13_Witness ==
    /\ pc = "done"
    /\ outcome = "Completed"
    /\ PrimaryIdle
    /\ ~result.is_final_step
    /\ step_count > min_steps_for_heuristic
    /\ snapshot = TextCatalog[2]

\* C14: with an empty action list after the third step and no completion
\* phrase in the page text, the no-actions branch leaves the loop with
\* Exhausted before is_final is looked at, so also when the local model
\* answered is_final_step = True; the result is never Completed.
C14_NoPhraseExhausted ==
    /\ [][ (pc = "act" /\ PrimaryIdle /\ step_count > min_steps_for_heuristic
               /\ ~ShowsCompletion(snapshot))
           => (pc' = "after_loop" /\ outcome' = "Exhausted"
               /\ step_count' = step_count) ]_vars
    /\ []((LoopLeft /\ PrimaryIdle /\ step_count > min_steps_for_heuristic
              /\ ~ShowsCompletion(snapshot))
          => outcome = "Exhausted")

\* the local model said is_final_step = True with no actions on a page
\* without a completion phrase, and the attempt ended with Exhausted before
\* the step budget was used up
C14_Witness ==
    /\ pc = "done"
    /\ outcome = "Exhausted"
    /\ PrimaryIdle
    /\ result.is_final_step
    /\ is_final
    /\ step_count > min_steps_for_heuristic
    /\ step_count < max_steps
    /\ ~ShowsCompletion(snapshot)

\* Every snapshot of the attempt so far showed the same text: stall_count is
\* set to 0 by the first comparison, raised by one by every later comparison
\* of an unchanged text and set to 0 again by a changed one, so it is one
\* less than step_count exactly when no comparison saw a change.
SameTextSoFar ==
    /\ InLoop \/ LoopLeft
    /\ pc \notin {"snapshot", "stall_detect"}
    /\ step_count >= 1
    /\ stall_count = step_count - 1

\* C15 as stated: with a cloud model and a page text that never changes, the
\* cloud model is called once in the whole attempt, in iteration 3, and an
\* attempt that reaches iteration 10 without is_final ends with Exhausted.
C15_EscalatesOnceAtThree ==
    (cloud_llm /\ SameTextSoFar)
        => /\ escalations <= 1
           /\ "escalation" \in invoked => step_count = stall_threshold
           /\ step_count > stall_threshold => escalations = 1
           /\ (pc = "done" /\ step_count = max_steps /\ ~raised /\ ~is_final)
                  => outcome = "Exhausted"

\* C16 as stated: execute_actions returns normally for every action list,
\* malformed entries included, with one recorded outcome for each action of
\* the list, in list order; no exception of it ever leaves the iteration.
C16_EveryActionAttempted ==
    /\ fault # "executor"
    /\ (pc = "final_check" /\ "executor" \in invoked)
           => /\ execution_result.status = "completed"
              /\ Len(execution_result.results) = Len(actions.items)
              /\ \A i \in 1..Len(actions.items) :
                     /\ actions.items[i].dict
                            => execution_result.results[i].action
                                   = actions.items[i].action
                     /\ ~actions.items[i].dict
                            => execution_result.results[i].status = "error"

\* C17 as stated: whatever the remote call does short of answering a
\* decision (it fails, its text holds no JSON, the JSON in it does not parse,
\* or it parses to something that is no dictionary), CloudLLM.analyze raises
\* nothing and returns the empty action list with is_final_step false.
C17_FailuresDegrade ==
    /\ fault # "escalation"
    /\ ~escalation.raised
    /\ cloud_reply \in CloudFailures \cup {"nondict"}
           => escalation = Answer(Sized(<< >>), FALSE)

\* C18 as stated: in an iteration where the threshold is reached, the cloud
\* model is called and proposes no actions, and the page text holds no
\* completion phrase, the loop is left with the result Stalled.
C18_EmptyEscalationStalls ==
    (/\ "escalation" \in invoked
     /\ escalation.dict
     /\ escalation.actions.items = << >>
     /\ ~ShowsCompletion(snapshot)
     /\ fault = "none"
     /\ pc \in {"final_check", "while", "after_loop", "finally", "done"})
        => (LoopLeft /\ outcome = "Stalled")

\* C19 as stated: an attempt that ended with a terminal result is reported
\* as having reached the maximum number of steps exactly when it ended with
\* Exhausted after max_steps iterations; an attempt that ended with
\* Completed in iteration max_steps is not reported so.
C19_BudgetReport ==
    (pc = "done" /\ outcome \in TerminalResults)
        => /\ reported_max <=> (outcome = "Exhausted" /\ step_count = max_steps)
           /\ outcome = "Completed" => ~reported_max

\* C20: without use_cloud, and also when CloudLLM() could not be created,
\* there is no cloud model and CloudLLM.analyze is never called: the only
\* collaborators of an iteration are the observer, the local model and the
\* executor, and a stall_count that reaches the threshold leaves the loop
\* with Stalled.
C20_LocalOnly ==
    /\ [](~use_cloud => ~cloud_llm)
    /\ [](~cloud_llm
             => /\ escalations = 0
                /\ cloud_reply = "none"
                /\ invoked \subseteq {"observer", "primary", "executor"})
    /\ [][ (pc = "stalled" /\ ~cloud_llm /\ stall_count >= stall_threshold)
           => (pc' = "after_loop" /\ outcome' = "Stalled"
               /\ escalations' = 0) ]_vars
    /\ [][ cloud_llm' # cloud_llm => pc = "start" ]_vars

\* an attempt without use_cloud made progress with the local model, then
\* stalled and ended
C20_Witness ==
    /\ pc = "done"
    /\ ~use_cloud
    /\ outcome = "Stalled"
    /\ escalations = 0
    /\ step_count > stall_threshold + 1

\* C21 as stated: after a call of the cloud model in iteration k, the next
\* call of the attempt is in iteration k + stall_threshold at the earliest,
\* so two iterations in a row never both call it.
C21_EscalationsSpaced ==
    [][ (escalations' = escalations + 1 /\ escalations > 0)
        => step_count >= escalated_at + stall_threshold ]_vars

\* C22: the cloud model is called only in an iteration whose comparison left
\* stall_count at the threshold or above, on a text equal to the
\* fingerprinted one; never in the first stall_threshold iterations, and
\* never in an iteration whose text differs from the one before.
C22_EscalationNeedsStall ==
    /\ [][ escalations' # escalations
           => /\ escalations' = escalations + 1
              /\ cloud_llm
              /\ stall_count >= stall_threshold
              /\ prior_stall = stall_count - 1
              /\ snapshot = fingerprinted
              /\ step_count > stall_threshold ]_vars
    /\ []("escalation" \in invoked
             => (stall_count >= stall_threshold
                 /\ step_count > stall_count))
    /\ [](escalations <= (IF step_count > stall_threshold
                          THEN step_count - stall_threshold ELSE 0))

\* the cloud model was called with stall_count exactly at the threshold,
\* after the text had changed at least once in the attempt
C22_Witness ==
    /\ pc = "analyze"
    /\ "escalation" \in invoked
    /\ stall_count = stall_threshold
    /\ step_count > stall_threshold + 1

\* C25: when the local model answers is_final_step = True with an empty
\* action list in one of the first three iterations, the page text is not
\* searched for a completion phrase: the iteration leaves the loop with
\* Completed at the same step_count, whatever the text shows.
C25_EarlyFinalCompletes ==
    /\ [][ (pc = "act" /\ PrimaryIdle /\ is_final
               /\ step_count <= min_steps_for_heuristic)
           => (pc' = "final_check" /\ is_final' /\ outcome' = "none"
               /\ step_count' = step_count) ]_vars
    /\ []((LoopLeft /\ PrimaryIdle /\ result.is_final_step /\ fault = "none"
              /\ step_count <= min_steps_for_heuristic)
          => outcome = "Completed")

\* an attempt ended with Completed in its first three iterations on a page
\* that shows no completion phrase
C25_Witness ==
    /\ pc = "done"
    /\ outcome = "Completed"
    /\ PrimaryIdle
    /\ result.is_final_step
    /\ step_count <= min_steps_for_heuristic
    /\ ~ShowsCompletion(snapshot)

\* C30: once the BrowserDriver exists, every way out of apply_to_job (no
\* Easy Apply button, a failed click, the end of the loop with any result,
\* an exception) passes through one browser.close(): a finished attempt has
\* closed the browser exactly once, and nothing closes it before the end.
C30_ClosedExactlyOnce ==
    /\ []((pc = "done" /\ browser # "none")
             => (browser = "closed" /\ closes = 1))
    /\ [](browser = "open" => closes = 0)
    /\ [](browser = "none" => (closes = 0 /\ pc \in {"start", "done"}))
    /\ [][ closes' # closes
           => (pc = "finally" /\ pc' = "done" /\ browser = "open"
               /\ browser' = "closed" /\ closes' = closes + 1) ]_vars

\* an attempt that ended with an exception of the executor closed the
\* browser once
C30_Witness ==
    /\ pc = "done"
    /\ raised
    /\ fault = "executor"
    /\ browser = "closed"
    /\ closes = 1

(***************************************************************************)
(* dom_utils.py:15-38   has_stalled                                        *)
(* An HTML string is a sequence of characters; only its length is read.    *)
(* The float threshold and the float quotient delta are fractions num/den  *)
(* with den > 0, compared exactly: for strings that fit in memory, float   *)
(* division rounds no quotient across the threshold.                       *)
(***************************************************************************)
Htmls == { [i \in 1..n |-> "x"] : n \in 0..MaxHtmlLen }

\* dom_utils.py:15   threshold: float = 0.05
DefaultThreshold == [num |-> 1, den |-> 20]

Thresholds ==
    { DefaultThreshold, [num |-> 0, den |-> 1], [num |-> 1, den |-> 2],
      [num |-> 0 - 1, den |-> 20] }

\* Python's abs
Abs(n) == IF n < 0 THEN 0 - n ELSE n

\* a < b for fractions with positive denominators
FractionLess(a, b) == a.num * b.den < b.num * a.den

\* a has_stalled whose comparison is <=
has_stalled_inclusive(previous, current, thr) ==
    IF previous = << >> THEN FALSE
    ELSE LET prev_len == Len(previous)
             curr_len == Len(current)
             delta == [num |-> Abs(curr_len - prev_len), den |-> prev_len]
         IN ~FractionLess(thr, delta)

\* lines 31-38
has_stalled(previous, current, thr) ==
    IF previous = << >> THEN FALSE
    ELSE LET prev_len == Len(previous)
             curr_len == Len(current)
         IN IF prev_len = 0 THEN FALSE
            ELSE LET delta == [num |-> Abs(curr_len - prev_len),
                               den |-> prev_len]
                 IN FractionLess(delta, thr)

\* a call of has_stalled with any two strings and any threshold
DomInit ==
    /\ ControllerStart /\ ~use_cloud
    /\ ExecIdle /\ WebIdle /\ OverlordIdle /\ FormIdle
    /\ dom_pc = "called"
    /\ previous_html \in Htmls
    /\ current_html \in Htmls
    /\ threshold \in Thresholds
    /\ stalled = FALSE

HasStalled ==
    /\ dom_pc = "called"
    /\ stalled' = has_stalled(previous_html, current_html, threshold)
    /\ dom_pc' = "returned"
    /\ UNCHANGED << previous_html, current_html, threshold >>
    /\ UNCHANGED << controller_vars, exec_vars, web_vars, overlord_vars,
                    form_vars >>

DomNext == HasStalled

DomSpec == DomInit /\ [][DomNext]_vars

\* C26: has_stalled returns True exactly when previous is nonempty and
\* |len(current) - len(previous)| / len(previous) is below the threshold;
\* so False for an empty previous, and True for equal lengths with a
\* nonempty previous and a positive threshold.  It changes no argument.
C26_HasStalled ==
    /\ [](dom_pc = "returned"
             => LET p == Len(previous_html)
                    c == Len(current_html)
                    d == IF c > p THEN c - p ELSE p - c
                IN /\ stalled <=> (p > 0 /\ d * threshold.den
                                               < threshold.num * p)
                   /\ p = 0 => ~stalled
                   /\ (p > 0 /\ c = p /\ threshold.num > 0) => stalled)
    /\ [][ UNCHANGED << previous_html, current_html, threshold >> ]_vars

\* with the default tolerance, a text that lost one character of more
\* than twenty counts as stalled
C26_Witness ==
    /\ dom_pc = "returned"
    /\ threshold = DefaultThreshold
    /\ Len(current_html) + 1 = Len(previous_html)
    /\ stalled

(***************************************************************************)
(* playwright_driver.py:62-135 and 144-215                                 *)
(* get_page_snapshot followed by execute_actions on the same page.  A page *)
(* is what the two element queries return, in document order: for each     *)
(* button whether it has text, for each input its type.                    *)
(***************************************************************************)
InputTypes == {"text", "file"}

ExecPages ==
    [buttons : SeqsUpTo(BOOLEAN, MaxElements),
     inputs : SeqsUpTo(InputTypes, MaxElements)]

\* lines 88-100 and 103-131: enumerate() numbers every element of the
\* query; a button without text gets no entry.  The ids given out, as the
\* indices i of btn_i and input_i.
get_page_snapshot(page) ==
    [buttons |-> { i \in 0..(Len(page.buttons) - 1) : page.buttons[i + 1] },
     inputs |-> 0..(Len(page.inputs) - 1)]

\* the positions among all inputs of those of type file, in document order:
\* what query_selector_all("input[type='file']") returns (line 200)
FileInputs(page) ==
    LET files == { p \in 1..Len(page.inputs) : page.inputs[p] = "file" }
    IN [n \in 1..Cardinality(files) |->
           CHOOSE p \in files :
               Cardinality({ q \in files : q <= p }) = n]

\* the lengths of the three query results of lines 176, 188 and 200
QueryCounts(page) ==
    [buttons |-> Len(page.buttons), inputs |-> Len(page.inputs),
     files |-> Len(FileInputs(page)), detached |-> FALSE]

NoElement == [list |-> "none", index |-> 0]

\* lines 174-178, 186-190, 198-202: the element an action acts on, as its
\* index in the query the snapshot numbered (buttons, or all inputs)
Touched(a, page) ==
    IF ~a.dict THEN NoElement
    ELSE IF a.action = "click" /\ a.prefix = "btn"
                /\ a.index < Len(page.buttons)
    THEN [list |-> "buttons", index |-> a.index]
    ELSE IF a.action = "fill" /\ a.prefix = "input"
                /\ a.index < Len(page.inputs)
    THEN [list |-> "inputs", index |-> a.index]
    ELSE IF a.action = "upload" /\ a.prefix = "input"
                /\ a.index < Len(FileInputs(page))
    THEN [list |-> "inputs", index |-> FileInputs(page)[a.index + 1] - 1]
    ELSE NoElement

\* the requests a caller can hand to execute_actions: the three actions and
\* an unknown one, on either kind of id; an object without id; a non-object
ExecRequests ==
    { Request(t, p, i) : t \in {"click", "fill", "upload", "hover"},
                         p \in {"btn", "input"},
                         i \in 0..(MaxElements - 1) }
    \cup { Request("click", "none", 0), Malformed }

ExecInit ==
    /\ ControllerStart /\ ~use_cloud
    /\ DomIdle /\ WebIdle /\ OverlordIdle /\ FormIdle
    /\ exec_pc = "start"
    /\ exec_page \in ExecPages
    /\ exec_snapshot = [buttons |-> {}, inputs |-> {}]
    /\ exec_actions = << >>
    /\ exec_done = 0
    /\ exec_results = NoExecution
    /\ exec_touched = << >>

exec_others ==
    << controller_vars, dom_vars, web_vars, overlord_vars, form_vars >>

\* get_page_snapshot()
GetPageSnapshot ==
    /\ exec_pc = "start"
    /\ exec_snapshot' = get_page_snapshot(exec_page)
    /\ exec_pc' = "snapshotted"
    /\ UNCHANGED << exec_page, exec_actions, exec_done, exec_results,
                    exec_touched >>
    /\ UNCHANGED exec_others

\* execute_actions(actions) is called, lines 160-163
ExecuteCall ==
    /\ exec_pc = "snapshotted"
    /\ exec_actions' \in SeqsUpTo(ExecRequests, MaxActions)
    /\ exec_pc' = "loop"
    /\ UNCHANGED << exec_page, exec_snapshot, exec_done, exec_results,
                    exec_touched >>
    /\ UNCHANGED exec_others

\* lines 165-213: one more action of the for loop
ExecuteStep ==
    /\ exec_pc = "loop"
    /\ exec_done < Len(exec_actions)
    /\ LET a == exec_actions[exec_done + 1]
           counts == QueryCounts(exec_page)
           so_far == execute_actions(SubSeq(exec_actions, 1, exec_done + 1),
                                     counts)
           recorded == Len(so_far.results) - Len(exec_results.results)
       IN /\ exec_results' = so_far
          /\ exec_done' = exec_done + 1
          /\ exec_pc' = IF so_far.raised THEN "raised" ELSE "loop"
          /\ exec_touched' =
                 Append(exec_touched,
                        [element |-> Touched(a, exec_page),
                         status |-> IF so_far.raised THEN "raised"
                                    ELSE IF recorded = 0 THEN "none"
                                    ELSE so_far.results[Len(so_far.results)]
                                             .status])
    /\ UNCHANGED << exec_page, exec_snapshot, exec_actions >>
    /\ UNCHANGED exec_others

\* line 215
ExecuteReturn ==
    /\ exec_pc = "loop"
    /\ exec_done = Len(exec_actions)
    /\ exec_pc' = "returned"
    /\ exec_results' = execute_actions(exec_actions, QueryCounts(exec_page))
    /\ UNCHANGED << exec_page, exec_snapshot, exec_actions, exec_done,
                    exec_touched >>
    /\ UNCHANGED exec_others

ExecNext ==
    \/ GetPageSnapshot
    \/ ExecuteCall
    \/ ExecuteStep
    \/ ExecuteReturn

ExecSpec == ExecInit /\ [][ExecNext]_vars

\* C23 as stated: a call of execute_actions that returns gives one result
\* for each action of the list, the i-th result being that of the i-th
\* action, whatever the action's type and id.
C23_OneOutcomePerAction ==
    exec_pc = "returned"
        => /\ Len(exec_results.results) = Len(exec_actions)
           /\ \A i \in 1..Len(exec_actions) :
                  exec_actions[i].dict
                      => exec_results.results[i].action
                             = exec_actions[i].action

\* the action gone through as number k carries an id that the snapshot gave
\* to an element the action is meant for (a button for click, any input for
\* fill, a file input for upload)
IdFromSnapshot(k) ==
    LET a == exec_actions[k] IN
    /\ a.dict
    /\ \/ /\ a.action = "click" /\ a.prefix = "btn"
          /\ a.index \in exec_snapshot.buttons
       \/ /\ a.action = "fill" /\ a.prefix = "input"
          /\ a.index \in exec_snapshot.inputs
       \/ /\ a.action = "upload" /\ a.prefix = "input"
          /\ a.index \in exec_snapshot.inputs
          /\ exec_page.inputs[a.index + 1] = "file"

\* C24 as stated: on an unchanged page an action whose id comes from the
\* snapshot acts on the element the snapshot gave that id to, and is not
\* answered with element_not_found.
C24_ActsOnSnapshotElement ==
    \A k \in 1..Len(exec_touched) :
        IdFromSnapshot(k)
            => /\ exec_touched[k].status = "success"
               /\ exec_touched[k].element
                      = [list |-> IF exec_actions[k].action = "click"
                                  THEN "buttons" ELSE "inputs",
                         index |-> exec_actions[k].index]

(***************************************************************************)
(* web_server.py   AutoApplyWebServer.handle_websocket_message and         *)
(* WebOrchestrator.web_run_job_search, stop                                *)
(* All coroutines run on one event loop: a step is the code between two    *)
(* awaits.  A message handler runs the check of is_running and             *)
(* create_task without an await in between (vector_db is set by __init__,  *)
(* so initialize() is not awaited); the created task runs later.           *)
(***************************************************************************)
RunIds == 1..MaxRuns

\* the task is inside the body of web_run_job_search
Executing(r) ==
    run_pc[r] \in {"announcing", "searching", "applying", "in_apply",
                   "finally"}

WebInit ==
    /\ ControllerStart /\ ~use_cloud
    /\ DomIdle /\ ExecIdle /\ OverlordIdle /\ FormIdle
    /\ is_running = FALSE
    /\ run_pc = [r \in RunIds |-> "none"]
    /\ run_jobs = [r \in RunIds |-> 0]

web_others ==
    << controller_vars, dom_vars, exec_vars, overlord_vars, form_vars >>

\* lines 411-428: a start_search message, from any connection
StartSearch ==
    /\ ~is_running
    /\ \E r \in RunIds :
        /\ run_pc[r] = "none"
        /\ \A q \in RunIds : q < r => run_pc[q] # "none"
        /\ run_pc' = [run_pc EXCEPT ![r] = "created"]
    /\ UNCHANGED << is_running, run_jobs >>
    /\ UNCHANGED web_others

\* lines 294-298: a stop message
Stop ==
    /\ is_running' = FALSE
    /\ UNCHANGED << run_pc, run_jobs >>
    /\ UNCHANGED web_others

\* lines 119-121: the task starts and awaits its first broadcasts
RunStart(r) ==
    /\ run_pc[r] = "created"
    /\ run_pc' = [run_pc EXCEPT ![r] = "announcing"]
    /\ UNCHANGED << is_running, run_jobs >>
    /\ UNCHANGED web_others

\* lines 123-131: is_running = True, then the search is awaited
RunSetRunning(r) ==
    /\ run_pc[r] = "announcing"
    /\ is_running' = TRUE
    /\ run_pc' = [run_pc EXCEPT ![r] = "searching"]
    /\ UNCHANGED run_jobs
    /\ UNCHANGED web_others

\* lines 125-153: the search returns some jobs, none, or raises
RunSearched(r) ==
    /\ run_pc[r] = "searching"
    /\ \E found \in 0..MaxJobs, raises \in BOOLEAN :
        /\ run_jobs' = [run_jobs EXCEPT ![r] = IF raises THEN 0 ELSE found]
        /\ run_pc' = [run_pc EXCEPT
                         ![r] = IF raises \/ found = 0 THEN "finally"
                                ELSE "applying"]
    /\ UNCHANGED is_running
    /\ UNCHANGED web_others

\* lines 155-169: the head of the loop over the jobs
RunNextJob(r) ==
    /\ run_pc[r] = "applying"
    /\ run_pc' = [run_pc EXCEPT
                     ![r] = IF run_jobs[r] = 0 \/ ~is_running THEN "finally"
                            ELSE "in_apply"]
    /\ UNCHANGED << is_running, run_jobs >>
    /\ UNCHANGED web_others

\* lines 171-177: web_apply_to_job returns, then the delay
RunApplied(r) ==
    /\ run_pc[r] = "in_apply"
    /\ run_jobs' = [run_jobs EXCEPT ![r] = run_jobs[r] - 1]
    /\ run_pc' = [run_pc EXCEPT ![r] = "applying"]
    /\ UNCHANGED is_running
    /\ UNCHANGED web_others

\* lines 202-204: finally
RunFinally(r) ==
    /\ run_pc[r] = "finally"
    /\ is_running' = FALSE
    /\ run_pc' = [run_pc EXCEPT ![r] = "done"]
    /\ UNCHANGED run_jobs
    /\ UNCHANGED web_others

WebNext ==
    \/ StartSearch
    \/ Stop
    \/ \E r \in RunIds : RunStart(r)
    \/ \E r \in RunIds : RunSetRunning(r)
    \/ \E r \in RunIds : RunSearched(r)
    \/ \E r \in RunIds : RunNextJob(r)
    \/ \E r \in RunIds : RunApplied(r)
    \/ \E r \in RunIds : RunFinally(r)

WebSpec == WebInit /\ [][WebNext]_vars

\* C27 as stated: at no time are two web_run_job_search tasks inside the
\* body of the function.
C27_SingleRun ==
    Cardinality({ r \in RunIds : Executing(r) }) <= 1

(***************************************************************************)
(* overlord_agent.py   OverlordAgent                                       *)
(* Time is counted in seconds.  active_applications maps each registered   *)
(* application to the seconds since its last_activity; the monitor         *)
(* alternates a check with a sleep of check_interval seconds, which may    *)
(* run up to MaxLate seconds late.                                         *)
(***************************************************************************)
\* line 29: timedelta(minutes=2)
timeout_threshold == 120
\* line 98: stuck_duration.total_seconds() < 180
hard_recovery_after == 180
\* line 68: asyncio.sleep(10)
check_interval == 10

AppIds == 1..MaxApps

Registered == DOMAIN active_applications

OverlordInit ==
    /\ ControllerStart /\ ~use_cloud
    /\ DomIdle /\ ExecIdle /\ WebIdle /\ FormIdle
    /\ active_applications = << >>
    /\ overlord_pc = "check"
    /\ silent = {}

overlord_others ==
    << controller_vars, dom_vars, exec_vars, web_vars, form_vars >>

\* lines 37-46
RegisterApplication(a) ==
    /\ a \notin Registered
    /\ a \notin silent
    /\ active_applications' =
           [b \in Registered \cup {a} |->
               IF b = a THEN 0 ELSE active_applications[b]]
    /\ UNCHANGED << overlord_pc, silent >>
    /\ UNCHANGED overlord_others

\* lines 48-52: the application completes
UnregisterApplication(a) ==
    /\ a \in Registered
    /\ a \notin silent
    /\ active_applications' =
           [b \in Registered \ {a} |-> active_applications[b]]
    /\ UNCHANGED << overlord_pc, silent >>
    /\ UNCHANGED overlord_others

\* lines 54-58
UpdateActivity(a) ==
    /\ a \in Registered
    /\ a \notin silent
    /\ active_applications' = [active_applications EXCEPT ![a] = 0]
    /\ UNCHANGED << overlord_pc, silent >>
    /\ UNCHANGED overlord_others

\* the application hangs: from now on it reports nothing
GoSilent(a) ==
    /\ a \in Registered
    /\ a \notin silent
    /\ silent' = silent \cup {a}
    /\ UNCHANGED << active_applications, overlord_pc >>
    /\ UNCHANGED overlord_others

\* lines 76-79
Stuck(a) == active_applications[a] > timeout_threshold

\* lines 98-103 and 113-120: hard recovery unregisters the application
HardRecovered(a) ==
    Stuck(a) /\ ~(active_applications[a] < hard_recovery_after)

\* lines 74-120: one round of check_for_stuck_applications; soft recovery
\* (lines 105-111) sets last_activity to now
CheckForStuckApplications ==
    /\ overlord_pc = "check"
    /\ active_applications' =
           [a \in { b \in Registered : ~HardRecovered(b) } |->
               IF Stuck(a) THEN 0 ELSE active_applications[a]]
    /\ overlord_pc' = "sleep"
    /\ UNCHANGED silent
    /\ UNCHANGED overlord_others

\* line 68: the sleep between two checks
Sleep ==
    /\ overlord_pc = "sleep"
    /\ \E late \in 0..MaxLate :
        active_applications' =
            [a \in Registered |->
                active_applications[a] + check_interval + late]
    /\ overlord_pc' = "check"
    /\ UNCHANGED silent
    /\ UNCHANGED overlord_others

OverlordNext ==
    \/ \E a \in AppIds : RegisterApplication(a)
    \/ \E a \in AppIds : UnregisterApplication(a)
    \/ \E a \in AppIds : UpdateActivity(a)
    \/ \E a \in AppIds : GoSilent(a)
    \/ CheckForStuckApplications
    \/ Sleep

OverlordSpec == OverlordInit /\ [][OverlordNext]_vars

\* lines 65-68: the monitoring loop keeps running
OverlordFairSpec ==
    /\ OverlordSpec
    /\ WF_vars(CheckForStuckApplications)
    /\ WF_vars(Sleep)

\* C28 as stated: an application that is registered and no longer reports
\* activity is eventually removed from active_applications.
C28_SilentEventuallyRemoved ==
    \A a \in AppIds :
        (a \in silent /\ a \in Registered) ~> (a \notin Registered)

(***************************************************************************)
(* form_filling_agent.py   AIFormFillingAgent.ai_complete_application_forms*)
(***************************************************************************)
\* line 169: max_steps = 10
form_max_steps == 10

NoFormResult ==
    [returned |-> FALSE, success |-> FALSE, completion_method |-> "none"]

FormReturn(success, method) ==
    [returned |-> TRUE, success |-> success, completion_method |-> method]

FormInit ==
    /\ ControllerStart /\ ~use_cloud
    /\ DomIdle /\ ExecIdle /\ WebIdle /\ OverlordIdle
    /\ form_pc = "loop"
    /\ form_step = 0
    /\ completed_steps = 0
    /\ form_result = NoFormResult

form_others ==
    << controller_vars, dom_vars, exec_vars, web_vars, overlord_vars >>

\* line 172: for step in range(max_steps); lines 209-213 after the loop
FormLoop ==
    /\ form_pc = "loop"
    /\ IF form_step < form_max_steps
       THEN /\ form_step' = form_step + 1
            /\ form_pc' = "analyze"
            /\ UNCHANGED form_result
       ELSE /\ form_pc' = "returned"
            /\ form_result' = FormReturn(completed_steps > 0, "partial")
            /\ UNCHANGED form_step
    /\ UNCHANGED completed_steps
    /\ UNCHANGED form_others

\* lines 176-194: the analysis of the current form; reading the page
\* (lines 218-219) is outside any try and may raise
AnalyzeCurrentForm ==
    /\ form_pc = "analyze"
    /\ \E is_complete, is_submit_stage, raises \in BOOLEAN :
        IF raises
        THEN /\ form_pc' = "returned"
             /\ form_result' = FormReturn(FALSE, "raised")
        ELSE IF is_complete
        THEN /\ form_pc' = "returned"
             /\ form_result' = FormReturn(TRUE, "ai_detected")
        ELSE /\ form_pc' = IF is_submit_stage THEN "submit" ELSE "fill"
             /\ UNCHANGED form_result
    /\ UNCHANGED << form_step, completed_steps >>
    /\ UNCHANGED form_others

\* lines 186-194 and 516-555: ai_submit_application answers whether it
\* clicked a submit button
SubmitApplication ==
    /\ form_pc = "submit"
    /\ \E submit_success \in BOOLEAN :
        form_result' = FormReturn(submit_success, "ai_submit")
    /\ form_pc' = "returned"
    /\ UNCHANGED << form_step, completed_steps >>
    /\ UNCHANGED form_others

\* lines 196-200
FillCurrentStep ==
    /\ form_pc = "fill"
    /\ \E filled_fields \in 0..MaxElements :
        completed_steps' =
            IF filled_fields > 0 THEN completed_steps + 1
            ELSE completed_steps
    /\ form_pc' = "next"
    /\ UNCHANGED << form_step, form_result >>
    /\ UNCHANGED form_others

\* lines 202-213: no next button breaks the loop
ClickNextButton ==
    /\ form_pc = "next"
    /\ \E next_success \in BOOLEAN :
        IF next_success
        THEN /\ form_pc' = "loop"
             /\ UNCHANGED form_result
        ELSE /\ form_pc' = "returned"
             /\ form_result' = FormReturn(completed_steps > 0, "partial")
    /\ UNCHANGED << form_step, completed_steps >>
    /\ UNCHANGED form_others

FormNext ==
    \/ FormLoop
    \/ AnalyzeCurrentForm
    \/ SubmitApplication
    \/ FillCurrentStep
    \/ ClickNextButton

FormSpec == FormInit /\ [][FormNext]_vars

\* C29 as stated: the function performs at most 10 form steps, and it
\* reports success only when completion was detected or the submit click
\* succeeded, never when the budget ran out or no next button was found.
C29_SuccessMeansSubmitted ==
    /\ form_step <= form_max_steps
    /\ form_result.returned /\ form_result.success
          => form_result.completion_method \in {"ai_detected", "ai_submit"}

=============================================================================
